---- MODULE Spec2Model ----
(***************************************************************************)
(* A model of adabot's bundle updater, adabot/circuitpython_bundle.py:     *)
(* the main loop over the bundles (fetch_bundle, update_bundle,            *)
(* commit_updates, push_updates, new_release), the reference resolver      *)
(* commit_to_tag, the contributor tally (get_contributors,                 *)
(* add_contributors) and the library list writer check_lib_links_md.       *)
(*                                                                         *)
(* Text is modelled as a sequence of tokens: a token is a run of           *)
(* characters that the code never looks inside (a commit id, a path        *)
(* segment), and every character the code does look at (" ", ".", "/",     *)
(* ":", "_") is a token of its own.                                        *)
(***************************************************************************)
EXTENDS Integers, Sequences, FiniteSets, TLC

VARIABLES
    \* ---- the main loop (__main__) and the operations it calls
    pc,                 \* position of the run
    cp_bundle,          \* index in BUNDLES of the bundle being processed
    cwd,                \* the process working directory (os.getcwd())
    working_directory,  \* the local of that name in the operation running
    status,             \* update_bundle: the status lines not yet processed
    updates,            \* update_bundle: the change records collected so far
    output,             \* new_release: the diff lines not yet processed
    release,            \* new_release: its locals (current_submodule, ...)
    hist,               \* per bundle: what the run did (observation only)
    stages              \* the stages called for the bundle being processed,
                        \* in the order of the calls (observation only)

mainVars == <<pc, cp_bundle, cwd, working_directory, status, updates, output,
              release, hist, stages>>

VARIABLES
    \* ---- commit_to_tag called on a library
    tags,               \* the library's tags: commit -> tag, <<>> for none
    resolved            \* the last call: its arguments and its outcome

tagVars == <<tags, resolved>>

VARIABLES
    \* ---- get_contributors called on a commit range
    REDIS,              \* the identity cache: key -> handle
    account,            \* the hosting platform: email -> login, "" for none
    log,                \* the log lines not yet processed
    contributors,       \* the tally: Python value -> weight
    gc                  \* the position of the call and what it did

contribVars == <<REDIS, account, log, contributors, gc>>

VARIABLES
    \* ---- add_contributors merging the tallies of the libraries
    master_list,        \* the master tally of each of two runs
    merge               \* the tallies to merge and the order of each run

mergeVars == <<master_list, merge>>

VARIABLES
    \* ---- check_lib_links_md run on the primary bundle
    document,           \* the text of circuitpython_library_list.md
    listing             \* the libraries, the lookups and the runs made

listVars == <<document, listing>>

VARIABLES
    \* ---- two invocations of get_contributors on one identity cache; they
    \*      share REDIS and account
    invocation,         \* per invocation: its position, its locals, its tally
    started             \* the cache the invocations started with

raceVars == <<invocation, started>>

VARIABLES
    \* ---- circuitpython_library_patches.py: check_patches on the repositories
    check_errors,       \* the module-level list of that name
    apply_errors,       \* the module-level list of that name
    stats,              \* [applied, skipped, failed] summed over the repositories
    patching            \* the run: its position, the locals of check_patches

patchVars == <<check_errors, apply_errors, stats, patching>>

vars == <<mainVars, tagVars, contribVars, mergeVars, listVars, raceVars,
         patchVars>>

\* a part of the program that is not running
TagIdle == tags = <<>> /\ resolved = <<>>

ListIdle == document = <<>> /\ listing = <<>>

RaceIdle == invocation = <<>> /\ started = <<>>

PatchIdle ==
    /\ check_errors = <<>> /\ apply_errors = <<>>
    /\ stats = <<>> /\ patching = <<>>

MergeIdle == master_list = <<>> /\ merge = <<>>

ContribIdle ==
    /\ REDIS = <<>> /\ account = <<>> /\ log = <<>>
    /\ contributors = <<>> /\ gc = <<>>

----------------------------------------------------------------------------
(* Text helpers: Python's str methods on token sequences.                  *)

\* s.startswith(p)
StartsWith(s, p) == Len(p) <= Len(s) /\ SubSeq(s, 1, Len(p)) = p

\* s.endswith(p)
EndsWith(s, p) ==
    Len(p) <= Len(s) /\ SubSeq(s, Len(s) - Len(p) + 1, Len(s)) = p

\* p in s
Contains(s, p) ==
    \E i \in 1..(Len(s) - Len(p) + 1) : SubSeq(s, i, i + Len(p) - 1) = p

\* s.split(sep) for a one-token separator: empty pieces are kept
RECURSIVE SplitOn(_, _)
SplitOn(s, sep) ==
    LET at == {i \in 1..Len(s) : s[i] = sep} IN
    IF at = {} THEN <<s>>
    ELSE LET k == CHOOSE i \in at : \A j \in at : i <= j
         IN  <<SubSeq(s, 1, k - 1)>> \o SplitOn(SubSeq(s, k + 1, Len(s)), sep)

\* s.split(): split on runs of blanks, empty pieces are dropped
Split(s) == SelectSeq(SplitOn(s, " "), LAMBDA piece : piece # <<>>)

\* s.strip(c) for a one-token character c
RECURSIVE Strip(_, _)
Strip(s, c) ==
    IF s # <<>> /\ s[1] = c THEN Strip(Tail(s), c)
    ELSE IF s # <<>> /\ s[Len(s)] = c THEN Strip(SubSeq(s, 1, Len(s) - 1), c)
    ELSE s

\* the last element of a non-empty sequence, s[-1]
Last(s) == s[Len(s)]

----------------------------------------------------------------------------
(* What the run works on.                                                  *)

BUNDLES == <<"Adafruit_CircuitPython_Bundle", "CircuitPython_Community_Bundle">>

Bundles == 1..Len(BUNDLES)

\* the directory the run is started in
StartDir == <<"/adabot">>

\* bundles_dir = os.path.abspath(".bundles") and os.path.join(bundles_dir, cp_bundle)
bundle_dir(b) == StartDir \o <<"/", ".bundles", "/", BUNDLES[b]>>

\* What a call of the sh command layer does: it returns, or it raises
\* sh.ErrorReturnCode_<exit status>.  Status 128 is git's "fatal", which
\* git describe --exact-match gives when no tag names the commit.
GitOutcomes == {"ok", "ErrorReturnCode_1", "ErrorReturnCode_128"}

\* What a call of the release-hosting client does: it returns a response,
\* or the transport raises.
HttpOutcomes == {"ok", "ConnectionError"}

\* except RuntimeError as e: the handler of the main loop takes RuntimeError
\* (and its subclasses) only; sh.ErrorReturnCode, ValueError, KeyError and
\* the transport's errors derive from Exception, not from RuntimeError.
Caught(exc) == exc = "RuntimeError"

\* the longest status report update_bundle is given
MaxStatusLines == 2

\* the status lines git status --short can report for a bundle
StatusLinePool ==
    { <<"M", " ", "libraries", "/", "drivers", "/", "foo">>,
      <<"M", " ", "circuitpython_", "library_list.md">>,
      <<"??", " ", "libraries", "/", "helpers", "/", "new">>,
      <<"M", " ", "README.rst">>,
      <<"R", " ", "docs", "/", "a", " ", "->", " ", "docs", "/", "b">> }

RECURSIVE SeqsUpTo(_, _)
SeqsUpTo(S, n) ==
    IF n = 0 THEN {<<>>}
    ELSE LET shorter == SeqsUpTo(S, n - 1)
         IN  shorter \cup {Append(q, x) : q \in shorter, x \in S}

StatusReports == SeqsUpTo(StatusLinePool, MaxStatusLines)

\* git diff --submodule=log <directory>: the header line of the submodule,
\* "Submodule <path> <old>..<new>:" (three dots when not a fast-forward),
\* the log lines, and the empty string after the last newline
CommitRanges ==
    { <<"abc123", ".", ".", "def456">>, <<"abc123", ".", ".", ".", "def456">> }

SubmoduleLog(directory, range) ==
    << <<"Submodule", " ">> \o directory \o <<" ">> \o range \o <<":">>,
       <<" ", " ", ">", " ", "bumped", " ", "version">>,
       <<>> >>

\* git remote get-url origin in a library (the last four characters apart)
RemoteUrl(directory) ==
    <<"https:", "/", "/", "github.com", "/", "adafruit", "/">>
        \o <<Last(directory)>> \o <<".", "g", "i", "t">>

\* What git describe --tags --exact-match <commit> does in a library: it
\* prints the tag that names the commit (exit 0), or fails.
Tags == {<<"1.2.0">>, <<"2.0.0">>}

DescribeOutcomes ==
    [exit : {"ok"}, out : Tags]
        \cup [exit : GitOutcomes \ {"ok"}, out : {<<>>}]

NoHist ==
    [ raised   |-> "none",   \* the exception that left the try body
      raisedIn |-> "none",   \* the operation it was raised in
      logged   |-> FALSE,    \* "Failed to update and release:" was printed
      lastLine |-> <<>>,     \* the status line update_bundle took last
      returned |-> FALSE,    \* update_bundle returned its list of records
      commits  |-> 0,        \* git commit calls that were made
      pushes   |-> 0,        \* git push calls that were made
      noDiff   |-> FALSE,    \* the diff new_release read was empty
      payloads |-> 0,        \* release payloads built
      posts    |-> 0,        \* create-release requests sent
      rejected |-> 0,        \* create-release responses that were not ok
      reported |-> 0 ]       \* failures printed with request URL and body

NoRelease ==
    [ current_submodule |-> <<>>, current_index |-> <<>>,
      added_submodules |-> <<>>, updated_submodules |-> <<>> ]

MainInit ==
    /\ pc = "fetch_bundle"
    /\ cp_bundle = 1
    /\ cwd = StartDir
    /\ working_directory = StartDir
    /\ status = <<>>
    /\ updates = <<>>
    /\ output = <<>>
    /\ release = NoRelease
    /\ hist = [b \in Bundles |-> NoHist]
    /\ stages = <<>>

Init == MainInit /\ TagIdle /\ ContribIdle /\ MergeIdle /\ ListIdle
        /\ RaceIdle /\ PatchIdle

----------------------------------------------------------------------------
(* The main loop: for cp_bundle in BUNDLES: try ... except RuntimeError.   *)

\* the parts of the program the main loop does not touch
notMain == <<tagVars, contribVars, mergeVars, listVars, raceVars, patchVars>>

\* the locals of the operation that runs
Locals(st, up, out, rel) ==
    /\ status' = st
    /\ updates' = up
    /\ output' = out
    /\ release' = rel

\* the loop goes on to the next bundle, or ends; the locals are gone
Continue ==
    /\ cp_bundle' = cp_bundle + 1
    /\ pc' = IF cp_bundle + 1 \in Bundles THEN "fetch_bundle" ELSE "done"
    /\ Locals(<<>>, <<>>, <<>>, NoRelease)

\* exc is raised in operation op of the try body: the handler prints it and
\* the loop continues, or no handler takes it and the process ends
Raise(exc, op, h) ==
    /\ hist' = [hist EXCEPT ![cp_bundle] =
                   [h EXCEPT !.raised = exc, !.raisedIn = op,
                             !.logged = Caught(exc)]]
    /\ IF Caught(exc)
       THEN Continue
       ELSE /\ pc' = "aborted"
            /\ cp_bundle' = cp_bundle
            /\ Locals(<<>>, <<>>, <<>>, NoRelease)

\* the calls made are added to the stages called while the bundle is
\* processed (calls in a row of one stage are kept as one)
RECURSIVE Called(_, _)
Called(trace, calls) ==
    IF calls = <<>> THEN trace
    ELSE Called(IF trace # <<>> /\ Last(trace) = Head(calls) THEN trace
                ELSE Append(trace, Head(calls)),
                Tail(calls))

\* the first of the outcomes that is a failure, "none" when all are "ok"
RECURSIVE FirstFailure(_)
FirstFailure(outcomes) ==
    IF outcomes = <<>> THEN "none"
    ELSE IF Head(outcomes) \notin {"ok", "none"} THEN Head(outcomes)
    ELSE FirstFailure(Tail(outcomes))

\* a slip: the release made before the bundle is brought up to date
ReleaseFirst == "new_release"

\* lines 457-458: what the try body calls once fetch_bundle has returned
AfterFetch == "update_bundle"

\* fetch_bundle(cp_bundle, bundle_dir)
fetch_bundle ==
    /\ pc = "fetch_bundle"
    /\ UNCHANGED notMain
    /\ stages' = <<>>
    /\ \E isdir \in BOOLEAN, clone \in GitOutcomes, pull \in GitOutcomes :
         IF ~isdir /\ clone # "ok"
         THEN /\ Raise(clone, "fetch_bundle", hist[cp_bundle])
              /\ UNCHANGED <<cwd, working_directory>>
         ELSE /\ working_directory' = cwd
              /\ IF pull # "ok"
                 THEN /\ cwd' = bundle_dir(cp_bundle)
                      /\ Raise(pull, "fetch_bundle", hist[cp_bundle])
                 ELSE /\ cwd' = cwd
                      /\ pc' = AfterFetch
                      /\ UNCHANGED <<cp_bundle, hist, status, updates, output,
                                     release>>

----------------------------------------------------------------------------
(* The reference resolver.                                                 *)

\* a slip: except sh.ErrorReturnCode, any failure taken for "no tag"
AnyErrorReturnCode(exit) == exit # "ok"

\* sh.ErrorReturnCode_128, the one error commit_to_tag handles
NotFound(exit) == exit = "ErrorReturnCode_128"

\* commit_to_tag(repo_path, commit), given what git describe does: the
\* value returned, or the exception that leaves the with block (Submodule's
\* __exit__ returns None, so it lets the exception through)
commit_to_tag(commit, describe) ==
    IF describe.exit = "ok"
    THEN [raised |-> "none", value |-> describe.out]
    ELSE IF NotFound(describe.exit)
    THEN [raised |-> "none", value |-> commit]
    ELSE [raised |-> describe.exit, value |-> <<>>]

----------------------------------------------------------------------------
(* update_bundle(bundle_dir)                                               *)

\* a slip: both conditions needed to refuse a line
UnsupportedBoth(action, directory) ==
    action # <<"M">> /\ ~StartsWith(directory, <<"libraries">>)

\* if action != "M" or not directory.startswith("libraries")
Unsupported(action, directory) ==
    action # <<"M">> \/ ~StartsWith(directory, <<"libraries">>)

\* lines 200-219: chdir, fetch the submodules, check out their latest
\* release tags, read the status report
update_bundle ==
    /\ pc = "update_bundle"
    /\ UNCHANGED notMain
    /\ working_directory' = cwd
    /\ cwd' = bundle_dir(cp_bundle)
    /\ \E fetch \in GitOutcomes, st \in GitOutcomes, report \in StatusReports :
         LET exc == FirstFailure(<<fetch, st>>) IN
         /\ stages' = IF exc # "none" THEN stages
                       ELSE Called(stages, <<"status_scanner">>)
         /\ IF exc # "none"
            THEN Raise(exc, "update_bundle", hist[cp_bundle])
            ELSE
              /\ Locals(report, <<>>, <<>>, NoRelease)
              /\ pc' = IF report # <<>> THEN "status_line" ELSE "check_lib_links"
              /\ UNCHANGED <<cp_bundle, hist>>

\* lines 220-237: one turn of the loop over the status lines
status_line ==
    /\ pc = "status_line"
    /\ UNCHANGED notMain
    /\ UNCHANGED <<cwd, working_directory>>
    /\ LET line == Head(status)
           fields == Split(line)
           h == [hist[cp_bundle] EXCEPT !.lastLine = line]
           scanned == Called(stages, <<"status_scanner">>)
           more == IF Tail(status) # <<>> THEN "status_line" ELSE "check_lib_links"
           Go(up) == /\ Locals(Tail(status), up, <<>>, NoRelease)
                     /\ hist' = [hist EXCEPT ![cp_bundle] = h]
                     /\ pc' = more
                     /\ UNCHANGED cp_bundle
       IN
       IF Len(fields) # 2
       THEN \* action, directory = status_line.split() cannot unpack
            /\ Raise("ValueError", "update_bundle", h)
            /\ stages' = scanned
       ELSE LET action == fields[1]
                directory == fields[2]
            IN
            IF EndsWith(directory, <<"library_list.md">>)
            THEN Go(updates) /\ stages' = scanned
            ELSE IF Unsupported(action, directory)
            THEN Raise("RuntimeError", "update_bundle", h) /\ stages' = scanned
            ELSE \E diff \in GitOutcomes, range \in CommitRanges,
                    d_old \in DescribeOutcomes, d_new \in DescribeOutcomes,
                    remote \in GitOutcomes :
                   LET diff_lines == SubmoduleLog(directory, range)
                       commit_range ==
                           SplitOn(Strip(Split(diff_lines[1])[3], ":"), ".")
                       old_commit == commit_to_tag(commit_range[1], d_old)
                       new_commit == commit_to_tag(Last(commit_range), d_new)
                       url == RemoteUrl(directory)
                       summary == SubSeq(diff_lines, 2, Len(diff_lines) - 1)
                       exc == FirstFailure(<<diff, old_commit.raised,
                                             new_commit.raised, remote>>)
                   IN
                   \* commit_to_tag is called once git diff has returned
                   /\ stages' = IF diff # "ok" THEN scanned
                                 ELSE Called(scanned, <<"commit_to_tag">>)
                   /\ IF exc # "none"
                      THEN Raise(exc, "update_bundle", h)
                      ELSE Go(Append(updates,
                                  [ url |-> SubSeq(url, 1, Len(url) - 4),
                                    old_commit |-> old_commit.value,
                                    new_commit |-> new_commit.value,
                                    summary |-> summary ]))

\* what check_lib_links_md(bundle_path) can return to update_bundle: the
\* names of the libraries whose line the listing document did not hold
\* (nothing for a bundle other than the primary one, line 83)
LibListUpdates(bundle_path) ==
    IF ~Contains(bundle_path, <<"Adafruit_CircuitPython_Bundle">>)
    THEN {<<>>}
    ELSE {<<>>, <<"Adafruit_CircuitPython_New">>}

\* lines 238-251: chdir back, bring the listing document up to date, return;
\* then line 459 of the main loop: commit and push only if there are updates
check_lib_links ==
    /\ pc = "check_lib_links"
    /\ UNCHANGED notMain
    /\ cwd' = working_directory
    /\ UNCHANGED <<working_directory, cp_bundle>>
    /\ \E lib_list_updates \in LibListUpdates(bundle_dir(cp_bundle)) :
         LET up == IF lib_list_updates # <<>>
                   THEN Append(updates,
                          [ url |-> <<"https:", "/", "/", "github.com", "/",
                                      "adafruit", "/",
                                      "Adafruit_CircuitPython_Bundle", "/",
                                      "circuitpython_", "library_list.md">>,
                            old_commit |-> <<"NA">>,
                            new_commit |-> <<"NA">>,
                            summary |-> <<lib_list_updates>> ])
                   ELSE updates
         IN  /\ Locals(<<>>, up, <<>>, NoRelease)
             /\ hist' = [hist EXCEPT ![cp_bundle].returned = TRUE]
             /\ stages' = Called(stages, <<"check_lib_links_md">>)
             /\ pc' = IF up # <<>> THEN "commit_updates" ELSE "new_release"

----------------------------------------------------------------------------
(* commit_updates(bundle_dir, updates_needed), push_updates(bundle_dir)    *)

\* repo_version() runs before the chdir; git describe failing with 128
\* falls back to git log
commit_updates ==
    /\ pc = "commit_updates"
    /\ UNCHANGED <<notMain, stages>>
    /\ working_directory' = cwd
    /\ \E describe \in GitOutcomes, git_log \in GitOutcomes,
          add \in GitOutcomes, commit \in GitOutcomes :
         LET version == IF describe = "ok" THEN "none"
                        ELSE IF NotFound(describe) THEN git_log
                        ELSE describe
             h == hist[cp_bundle]
         IN
         IF version \notin {"ok", "none"}
         THEN /\ Raise(version, "commit_updates", h)
              /\ UNCHANGED cwd
         ELSE IF add # "ok"
         THEN /\ Raise(add, "commit_updates", h)
              /\ cwd' = bundle_dir(cp_bundle)
         ELSE IF commit # "ok"
         THEN /\ Raise(commit, "commit_updates",
                       [h EXCEPT !.commits = h.commits + 1])
              /\ cwd' = bundle_dir(cp_bundle)
         ELSE /\ hist' = [hist EXCEPT ![cp_bundle].commits = h.commits + 1]
              /\ cwd' = cwd
              /\ pc' = "push_updates"
              /\ UNCHANGED <<cp_bundle, status, updates, output, release>>

push_updates ==
    /\ pc = "push_updates"
    /\ UNCHANGED <<notMain, stages>>
    /\ working_directory' = cwd
    /\ \E push \in GitOutcomes :
         LET h == [hist[cp_bundle] EXCEPT !.pushes = hist[cp_bundle].pushes + 1]
         IN
         IF push # "ok"
         THEN /\ Raise(push, "push_updates", h)
              /\ cwd' = bundle_dir(cp_bundle)
         ELSE /\ hist' = [hist EXCEPT ![cp_bundle] = h]
              /\ cwd' = cwd
              /\ pc' = "new_release"
              /\ UNCHANGED <<cp_bundle, status, updates, output, release>>

----------------------------------------------------------------------------
(* new_release(cp_bundle, bundle_dir)                                      *)

\* the most entries the diff between the last release and the head holds
MaxDiffEntries == 1

\* the entries git diff --submodule=short <last_tag>.. can hold: a library
\* moved to a new commit, a library added, a library removed, a plain file
DiffEntryPool ==
    { [ kind |-> "updated", path |-> <<"libraries", "/", "drivers", "/", "foo">>,
        old |-> "abc1234", new |-> "def5678" ],
      [ kind |-> "added", path |-> <<"libraries", "/", "helpers", "/", "new">>,
        old |-> "0000000", new |-> "aaa1111" ],
      [ kind |-> "removed", path |-> <<"libraries", "/", "drivers", "/", "old">>,
        old |-> "bbb2222", new |-> "0000000" ],
      [ kind |-> "file", path |-> <<"circuitpython_", "library_list.md">>,
        old |-> "ccc3333", new |-> "ddd4444" ] }

\* the lines git prints for one entry
DiffLines(e) ==
    << <<"diff", " ", "--git", " ", "a", "/">> \o e.path
           \o <<" ", "b", "/">> \o e.path >>
    \o (IF e.kind = "added"
        THEN << <<"new", " ", "file", " ", "mode", " ", "160000">> >>
        ELSE IF e.kind = "removed"
        THEN << <<"deleted", " ", "file", " ", "mode", " ", "160000">> >>
        ELSE <<>>)
    \o << <<"index", " ", e.old, ".", ".", e.new>>
             \o (IF e.kind = "updated" THEN <<" ", "160000">>
                 ELSE IF e.kind = "file" THEN <<" ", "100644">>
                 ELSE <<>>) >>
    \o << IF e.kind = "added" THEN <<"---", " ", "/dev/null">>
          ELSE <<"---", " ", "a", "/">> \o e.path >>
    \o << IF e.kind = "removed" THEN <<"+++", " ", "/dev/null">>
          ELSE <<"+++", " ", "b", "/">> \o e.path >>
    \o << <<"@@", " ", "-1", " ", "+1", " ", "@@">> >>
    \o (IF e.kind = "file"
        THEN << <<"+*", " ", "[New]", "(url)">> >>
        ELSE (IF e.kind # "added"
              THEN << <<"-Subproject", " ", "commit", " ", e.old>> >>
              ELSE <<>>)
             \o (IF e.kind # "removed"
                 THEN << <<"+Subproject", " ", "commit", " ", e.new>> >>
                 ELSE <<>>))

RECURSIVE DiffText(_)
DiffText(entries) ==
    IF entries = <<>> THEN <<>>
    ELSE DiffLines(Head(entries)) \o DiffText(Tail(entries))

DiffOutputs == {DiffText(es) : es \in SeqsUpTo(DiffEntryPool, MaxDiffEntries)}

\* what get_contributors does as seen by its caller: it returns a tally, or
\* git log fails with a status other than 128, or the commit lookup raises
ContribOutcomes == {"ok", "ErrorReturnCode_1", "ConnectionError"}

\* reading the latest release: the tag, a transport error, or an answer
\* without "tag_name"
LatestOutcomes == {"ok", "ConnectionError", "KeyError"}

\* what github.post returns or raises
PostOutcomes == {"ok", "rejected", "ConnectionError"}

\* a slip: the early return left out
NeverNothingToRelease(out) == FALSE

\* if not output: print("Everything is already released."); return
NothingToRelease(out) == out = <<>>

\* output.split("\n"): the empty text is one empty line
Lines(out) == IF out = <<>> THEN << <<>> >> ELSE out

\* lines 337-357
new_release ==
    /\ pc = "new_release"
    /\ UNCHANGED notMain
    /\ working_directory' = cwd
    /\ cwd' = bundle_dir(cp_bundle)
    /\ \E latest \in LatestOutcomes, contrib \in ContribOutcomes,
          diff \in GitOutcomes, out \in DiffOutputs :
         LET exc == FirstFailure(<<latest, contrib, diff>>)
             h == [hist[cp_bundle] EXCEPT !.noDiff = (out = <<>>)]
         IN
         \* get_contributors is called once the latest release is read
         /\ stages' = IF latest # "ok" THEN stages
                       ELSE Called(stages, <<"get_contributors">>)
         /\ IF exc # "none"
            THEN Raise(exc, "new_release", hist[cp_bundle])
            ELSE IF NothingToRelease(out)
            THEN /\ hist' = [hist EXCEPT ![cp_bundle] = h]
                 /\ Continue
            ELSE /\ Locals(<<>>, <<>>, Lines(out), NoRelease)
                 /\ hist' = [hist EXCEPT ![cp_bundle] = h]
                 /\ pc' = "release_line"
                 /\ UNCHANGED cp_bundle

\* lines 358-388: one turn of the loop over the lines of the diff
release_line ==
    /\ pc = "release_line"
    /\ UNCHANGED notMain
    /\ UNCHANGED <<cwd, working_directory>>
    /\ LET line == Head(output)
           more == IF Tail(output) # <<>> THEN "release_line" ELSE "create_release"
           Go(rel) == /\ Locals(<<>>, <<>>, Tail(output), rel)
                      /\ pc' = more
                      /\ UNCHANGED <<cp_bundle, hist>>
           Skip(rel) == Go(rel) /\ UNCHANGED stages
       IN
       IF StartsWith(line, <<"diff">>)
       THEN Skip([release EXCEPT !.current_submodule =
                     LET field == Last(Split(line))
                     IN  SubSeq(field, 3, Len(field))])
       ELSE IF Contains(line, <<"index">>)
       THEN Skip([release EXCEPT !.current_index = line])
       ELSE IF ~StartsWith(line, <<"+Subproject">>)
       THEN Skip(release)
       ELSE LET directory == release.current_submodule
                commit_range == Split(release.current_index)[2]
                library_name == Last(SplitOn(directory, "/"))
            IN
            IF ~StartsWith(commit_range, <<"0000000">>)
               /\ EndsWith(commit_range, <<"0000000">>)
            THEN Skip(release)
            ELSE \E remote \in GitOutcomes, describe \in DescribeOutcomes,
                    contrib \in ContribOutcomes :
                   LET range == IF StartsWith(commit_range, <<"0000000">>)
                                THEN Last(SplitOn(commit_range, "."))
                                ELSE commit_range
                       new_commit == Last(SplitOn(range, "."))
                       release_tag == commit_to_tag(new_commit, describe)
                       exc == FirstFailure(<<remote, release_tag.raised, contrib>>)
                   IN
                   \* the calls made: commit_to_tag once the remote URL is
                   \* read, get_contributors once commit_to_tag has returned
                   /\ stages' =
                         Called(stages,
                                IF remote # "ok" THEN <<>>
                                ELSE IF release_tag.raised # "none"
                                THEN <<"commit_to_tag">>
                                ELSE <<"commit_to_tag", "get_contributors">>)
                   /\ IF exc # "none"
                      THEN Raise(exc, "new_release", hist[cp_bundle])
                      ELSE IF StartsWith(commit_range, <<"0000000">>)
                      THEN Go([release EXCEPT !.added_submodules =
                                  Append(@, library_name)])
                      ELSE Go([release EXCEPT !.updated_submodules =
                                  Append(@, library_name)])

\* a slip: a rejected request sent again
post_release_retried(h, post) ==
    [h EXCEPT !.posts = IF post = "rejected" THEN @ + 2 ELSE @ + 1,
              !.rejected = IF post = "rejected" THEN @ + 1 ELSE @,
              !.reported = IF post = "rejected" THEN @ + 1 ELSE @]

\* lines 440-445: the create-release request and what is printed of its
\* answer, as counted in the history of the bundle
post_release(h, post) ==
    [h EXCEPT !.posts = @ + 1,
              !.rejected = IF post = "rejected" THEN @ + 1 ELSE @,
              !.reported = IF post = "rejected" THEN @ + 1 ELSE @]

\* lines 390-447: build the payload, send it, chdir back
create_release ==
    /\ pc = "create_release"
    /\ UNCHANGED notMain
    /\ UNCHANGED working_directory
    /\ \E sha \in GitOutcomes, post \in PostOutcomes :
         LET h == hist[cp_bundle]
             built == [h EXCEPT !.payloads = @ + 1]
         IN
         \* the payload is composed once the head commit is read
         /\ stages' = IF sha # "ok" THEN stages
                       ELSE Called(stages, <<"release">>)
         /\ IF sha # "ok"
            THEN /\ Raise(sha, "new_release", h)
                 /\ UNCHANGED cwd
            ELSE IF post \notin {"ok", "rejected"}
            THEN /\ Raise(post, "new_release", [built EXCEPT !.posts = @ + 1])
                 /\ UNCHANGED cwd
            ELSE /\ hist' = [hist EXCEPT ![cp_bundle] = post_release(built, post)]
                 /\ cwd' = working_directory
                 /\ Continue

----------------------------------------------------------------------------

Next ==
    \/ fetch_bundle
    \/ update_bundle
    \/ status_line
    \/ check_lib_links
    \/ commit_updates
    \/ push_updates
    \/ new_release
    \/ release_line
    \/ create_release

Spec == Init /\ [][Next]_vars

----------------------------------------------------------------------------
(* The main loop: what holds of a run.                                     *)

\* C1: every failure raised while a bundle is processed is caught by the
\* handler of the main loop and logged, and the run goes on: no failure of
\* one bundle ends the run.
C1_EveryFailureCaught ==
    \A b \in Bundles :
        hist[b].raised # "none" => hist[b].logged /\ pc # "aborted"

\* a status line that is not the listing document's own and whose action is
\* not M or whose path is outside the libraries root
C2_IsUnsupported(line) ==
    LET f == Split(line) IN
    /\ Len(f) >= 2
    /\ ~EndsWith(f[2], <<"library_list.md">>)
    /\ (f[1] # <<"M">> \/ f[2][1] # "libraries")

\* C2: once update_bundle has taken an unsupported status line it has raised
\* at that line: no later line is taken, no list of change records is
\* returned, and the bundle gets no commit, no push and no release.
C2_UnsupportedStatusIsFatal ==
    \A b \in Bundles :
        C2_IsUnsupported(hist[b].lastLine) =>
            /\ hist[b].raised # "none"
            /\ hist[b].raisedIn = "update_bundle"
            /\ ~hist[b].returned
            /\ hist[b].commits = 0 /\ hist[b].pushes = 0
            /\ hist[b].payloads = 0 /\ hist[b].posts = 0
            /\ (b = cp_bundle => pc = "aborted" /\ status = <<>>)

\* bundle 1 raised at an unsupported status line and the run is at bundle 2
C2_Witness ==
    /\ C2_IsUnsupported(hist[1].lastLine)
    /\ hist[1].raised = "RuntimeError"
    /\ cp_bundle = 2 /\ pc = "update_bundle"

\* C8: when the diff between the last release and the head is empty, no
\* release payload is built and no create-release request is sent.
C8_NoReleaseOnEmptyDiff ==
    \A b \in Bundles :
        hist[b].noDiff => hist[b].payloads = 0 /\ hist[b].posts = 0

\* bundle 1 committed and pushed, found nothing to release, and the run
\* went on to bundle 2
C8_Witness ==
    /\ hist[1].noDiff /\ hist[1].pushes = 1 /\ hist[1].raised = "none"
    /\ cp_bundle = 2

\* C10: the create-release request is sent at most once per bundle; an
\* answer that is not ok is reported, is not retried, raises nothing, and
\* the run goes on to the next bundle.
C10_RejectedReleaseReportedOnce ==
    \A b \in Bundles :
        /\ hist[b].posts <= 1
        /\ hist[b].reported = hist[b].rejected
        /\ hist[b].rejected > 0 =>
               /\ hist[b].posts = 1 /\ hist[b].reported = 1
               /\ hist[b].raised = "none"
               /\ cp_bundle > b

\* both bundles had their release rejected and the run came to its end
C10_Witness ==
    /\ \A b \in Bundles : hist[b].rejected = 1 /\ hist[b].posts = 1
    /\ pc = "done"

\* the place of a stage in the pipeline of the system overview
C11_StageNo(stage) ==
    CASE stage = "status_scanner" -> 1
      [] stage = "check_lib_links_md" -> 2
      [] stage = "commit_to_tag" -> 3
      [] stage = "get_contributors" -> 4
      [] stage = "release" -> 5

\* C11 as stated: while a bundle is processed the five stages are called in
\* the order Status Scanner, Library List Synchronizer, Reference Resolver,
\* Contributor Aggregator, Release Composer: no stage is called after a
\* later one.
C11_StagesInOrder ==
    \A i, j \in DOMAIN stages :
        i < j => C11_StageNo(stages[i]) <= C11_StageNo(stages[j])

\* the calls of the stages other than the resolver
C11_Pipeline == SelectSeq(stages, LAMBDA stage : stage # "commit_to_tag")

\* C11 amended: while a bundle is processed, the status scan, then
\* check_lib_links_md, then the calls of get_contributors, then the
\* composition of the release payload follow each other in that order, none
\* called before the one before it was, none called again after a later
\* one; commit_to_tag is no stage of its own: it is called from within the
\* status scan and from within new_release, never before the status scan
\* has started.
C11_StagesInOrderResolverAside ==
    /\ \A i, j \in DOMAIN C11_Pipeline :
           i < j => C11_StageNo(C11_Pipeline[i]) <= C11_StageNo(C11_Pipeline[j])
    /\ \A i \in DOMAIN C11_Pipeline :
           \A earlier \in {"status_scanner", "check_lib_links_md",
                           "get_contributors"} :
               C11_StageNo(earlier) < C11_StageNo(C11_Pipeline[i]) =>
                   \E j \in 1..(i - 1) : C11_Pipeline[j] = earlier
    /\ \A i \in DOMAIN stages :
           stages[i] = "commit_to_tag" => stages[1] = "status_scanner"

\* a bundle went through every stage, the resolver called from the status
\* scan and again from new_release
C11_Witness ==
    stages = << "status_scanner", "commit_to_tag", "check_lib_links_md",
                "get_contributors", "commit_to_tag", "get_contributors",
                "release" >>

\* C14: fetch_bundle, update_bundle, commit_updates, push_updates and
\* new_release each leave the process working directory as they found it,
\* however they end: whenever none of them is running, the working
\* directory is the one the run started in.
C14_WorkingDirectoryRestored ==
    pc \in {"fetch_bundle", "update_bundle", "commit_updates", "push_updates",
            "new_release", "done", "aborted"}
        => cwd = StartDir

----------------------------------------------------------------------------
(* The reference resolver on its own: commit_to_tag called on a library    *)
(* whose tags are known.                                                   *)

Commits == {<<"abc123">>, <<"def456">>, <<"0a1b2c">>}

\* what stops git describe apart from the commit having no tag
DescribeFailures == {"none", "ErrorReturnCode_1", "ErrorReturnCode_128"}

\* git describe --tags --exact-match <commit> in a library with these tags
Describe(commit, failure) ==
    IF failure # "none" THEN [exit |-> failure, out |-> <<>>]
    ELSE IF tags[commit] # <<>> THEN [exit |-> "ok", out |-> tags[commit]]
    ELSE [exit |-> "ErrorReturnCode_128", out |-> <<>>]

\* Submodule.__exit__: os.chdir(self.original_directory)
Submodule_exit(original_directory) == original_directory

TagInit ==
    /\ MainInit
    /\ tags \in [Commits -> Tags \cup {<<>>}]
    /\ resolved = <<>>
    /\ ContribIdle /\ MergeIdle /\ ListIdle /\ RaceIdle /\ PatchIdle

\* one call commit_to_tag(repo_path, commit)
resolve ==
    /\ \E commit \in Commits, failure \in DescribeFailures :
         LET describe == Describe(commit, failure)
             result == commit_to_tag(commit, describe)
         IN  resolved' = << [ commit |-> commit, exit |-> describe.exit,
                              raised |-> result.raised,
                              value |-> result.value ] >>
    /\ cwd' = Submodule_exit(cwd)
    /\ UNCHANGED <<pc, cp_bundle, working_directory, status, updates, output,
                   release, hist, stages, tags, contribVars, mergeVars,
                   listVars, raceVars, patchVars>>

TagNext == resolve

SpecTag == TagInit /\ [][TagNext]_vars

\* C3: commit_to_tag returns the exact tag when the lookup succeeds, the raw
\* commit unchanged when, and only when, the lookup ends with the not-found
\* status 128, and for every other failure returns nothing and lets the
\* failure through to its caller.
C3_ResolverFallsBackOnNotFoundOnly ==
    \A r \in {resolved[i] : i \in DOMAIN resolved} :
        /\ r.exit = "ok" =>
               r.raised = "none" /\ r.value = tags[r.commit]
        /\ r.exit = "ErrorReturnCode_128" =>
               r.raised = "none" /\ r.value = r.commit
        /\ r.exit \notin {"ok", "ErrorReturnCode_128"} =>
               r.raised = r.exit /\ r.value = <<>>
        /\ (r.raised = "none" /\ r.value = r.commit) =>
               r.exit = "ErrorReturnCode_128"

\* a tagged commit was looked up and the lookup failed otherwise than with
\* not-found: the failure went to the caller
C3_Witness ==
    /\ resolved # <<>>
    /\ tags[resolved[1].commit] # <<>>
    /\ resolved[1].exit = "ErrorReturnCode_1"
    /\ resolved[1].raised = "ErrorReturnCode_1"

----------------------------------------------------------------------------
(* The contributor tally: get_contributors(repo, commit_range) with the    *)
(* identity cache and the commit lookup of the hosting platform.           *)

\* the most commits a range holds
MaxCommits == 2

NOREPLY == "noreply@github.com"

Emails == {"a@x.org", "b@x.org", NOREPLY}

Handles == {"alice", "bob", "web-flow"}

\* The logins the platform can hold for the emails; "" where the email
\* belongs to no account.  Commits made on the platform itself carry
\* NOREPLY as committer email and the platform's own account as committer.
Accounts ==
    { a \in [Emails -> Handles \cup {""}] :
         /\ a["a@x.org"] \in {"alice", ""}
         /\ a["b@x.org"] \in {"alice", "bob", ""}
         /\ a[NOREPLY] = "web-flow" }

\* the commits of a library
CommitPool ==
    { [sha |-> "c1", author_email |-> "a@x.org", committer_email |-> "a@x.org"],
      [sha |-> "c2", author_email |-> "a@x.org", committer_email |-> "b@x.org"],
      [sha |-> "c3", author_email |-> "a@x.org", committer_email |-> NOREPLY],
      [sha |-> "c4", author_email |-> "b@x.org", committer_email |-> "a@x.org"],
      [sha |-> "c5", author_email |-> "b@x.org", committer_email |-> "b@x.org"],
      [sha |-> "c6", author_email |-> "b@x.org", committer_email |-> NOREPLY] }

\* the commit ranges: sequences of different commits
Ranges ==
    { r \in SeqsUpTo(CommitPool, MaxCommits) :
         \A i, j \in 1..Len(r) : i # j => r[i] # r[j] }

\* git log --pretty=tformat:%H,%ae,%ce prints one line for a commit
LogLine(c) == <<c.sha, ",", c.author_email, ",", c.committer_email>>

RECURSIVE LogText(_)
LogText(range) ==
    IF range = <<>> THEN <<>>
    ELSE <<LogLine(Head(range))>> \o LogText(Tail(range))

\* Python values: None, the bytes the cache gives, the str of a login
None == [t |-> "None", v |-> ""]
Bytes(h) == [t |-> "bytes", v |-> h]
Str(h) == [t |-> "str", v |-> h]

\* the truth value of a Python value: None and empty texts are false
Truthy(x) == x.t # "None" /\ x.v # ""

\* f"github_username:{email}"
Key(email) == <<"github_username:", email>>

\* REDIS.get(key)
REDIS_get(cache, key) ==
    IF key \in DOMAIN cache THEN Bytes(cache[key]) ELSE None

\* REDIS.set(key, value)
REDIS_set(cache, key, value) ==
    [k \in DOMAIN cache \cup {key} |-> IF k = key THEN value ELSE cache[k]]

\* github.get(f"/repos/{repo}/commits/{sha}").json(): the accounts of the
\* author and of the committer, None where the platform knows none
CommitInfo(c) ==
    [ author |-> IF account[c.author_email] # ""
                 THEN Str(account[c.author_email]) ELSE None,
      committer |-> IF account[c.committer_email] # ""
                    THEN Str(account[c.committer_email]) ELSE None ]

\* the caches earlier runs can have left: each entry is a login the
\* platform gave for the email
Caches ==
    UNION { [ {Key(e) : e \in es} -> Handles ] : es \in SUBSET Emails }

ConsistentCache(cache, acc) ==
    \A e \in Emails : Key(e) \in DOMAIN cache => cache[Key(e)] = acc[e]

\* a slip: the commit looked up whatever the cache holds
AlwaysLookup(author, committer) == TRUE

\* if not author or not committer
NeedsLookup(author, committer) == ~Truthy(author) \/ ~Truthy(committer)

\* a slip: the sentinel address not checked
NeverExcluded(committer_email) == FALSE

\* if committer_email == "noreply@github.com"
Excluded(committer_email) == committer_email = NOREPLY

\* a slip: the committer credited even when the author
CreditsAnyCommitter(author, committer) == Truthy(committer)

\* if committer and committer != author
CreditsCommitter(author, committer) == Truthy(committer) /\ committer # author

\* the value of tally[k] after tally[k] = v
DictSet(tally, k, v) ==
    [x \in DOMAIN tally \cup {k} |-> IF x = k THEN v ELSE tally[x]]

\* lines 308-315: the tally after a commit by author and committer
Credit(tally, author, committer) ==
    LET t1 == IF Truthy(author) /\ author \notin DOMAIN tally
              THEN DictSet(tally, author, 0) ELSE tally
        t2 == IF Truthy(committer) /\ committer \notin DOMAIN t1
              THEN DictSet(t1, committer, 0) ELSE t1
        t3 == IF Truthy(author) THEN DictSet(t2, author, t2[author] + 1) ELSE t2
    IN  IF CreditsCommitter(author, committer)
        THEN DictSet(t3, committer, t3[committer] + 1)
        ELSE t3

\* a slip: the handle of the cache kept where the lookup gives one
ResolvedCacheFirst(cached, found) == IF Truthy(cached) THEN cached ELSE found

\* lines 296-301: the handle after the lookup: the login the platform gives,
\* and what the cache gave where the platform gives none
Resolved(cached, found) == IF Truthy(found) THEN found ELSE cached

\* a slip: the bytes of the cache used as they are
NotDecoded(cached) == cached

\* lines 303-304: author.decode("utf-8")
Decoded(cached) == Str(cached.v)

\* lines 306-315: the tally after the commit is credited
Tallied(tally, committer_email, author, committer) ==
    Credit(tally, author, IF Excluded(committer_email) THEN None ELSE committer)

\* lines 293-315 for a commit whose lookup, if made, answers info: the
\* cache and the tally afterwards, and whether the lookup was made
log_line_body(cache, tally, author_email, committer_email, info) ==
    LET cached_author == REDIS_get(cache, Key(author_email))
        cached_committer == REDIS_get(cache, Key(committer_email))
    IN
    IF NeedsLookup(cached_author, cached_committer)
    THEN LET author == Resolved(cached_author, info.author)
             committer == Resolved(cached_committer, info.committer)
             r1 == IF Truthy(info.author)
                   THEN REDIS_set(cache, Key(author_email), author.v)
                   ELSE cache
             r2 == IF Truthy(info.committer)
                   THEN REDIS_set(r1, Key(committer_email), committer.v)
                   ELSE r1
         IN  [ REDIS |-> r2,
               contributors |-> Tallied(tally, committer_email, author, committer),
               queried |-> TRUE ]
    ELSE [ REDIS |-> cache,
           contributors |-> Tallied(tally, committer_email,
                                    Decoded(cached_author),
                                    Decoded(cached_committer)),
           queried |-> FALSE ]

ContribInit ==
    /\ MainInit /\ TagIdle /\ MergeIdle /\ ListIdle /\ RaceIdle /\ PatchIdle
    /\ account \in Accounts
    /\ REDIS \in {c \in Caches : ConsistentCache(c, account)}
    /\ log = <<>>
    /\ contributors = <<>>
    /\ gc \in [ pc : {"git_log"},
                range : Ranges,     \* the commits of the range asked for
                seen : {<<>>},      \* the commits git log printed
                last : {<<>>},      \* the last turn of the loop
                queries : {0} ]     \* the commit lookups made

\* lines 280-288: read the log of the range
get_contributors ==
    /\ gc # <<>> /\ gc.pc = "git_log"
    /\ \E git_log \in GitOutcomes :
         IF git_log \notin {"ok", "ErrorReturnCode_128"}
         THEN /\ gc' = [gc EXCEPT !.pc = "raised"]
              /\ UNCHANGED <<log, contributors>>
         ELSE LET out == IF git_log = "ok" THEN gc.range ELSE <<>> IN
              /\ log' = LogText(out)
              /\ contributors' = <<>>
              /\ gc' = [gc EXCEPT !.seen = out,
                                  !.pc = IF out = <<>> THEN "returned"
                                         ELSE "log_line"]
    /\ UNCHANGED <<mainVars, tagVars, mergeVars, listVars, raceVars,
                   patchVars, REDIS, account>>

\* lines 289-315: one turn of the loop over the log lines
log_line ==
    /\ gc # <<>> /\ gc.pc = "log_line"
    /\ LET fields == SplitOn(Head(log), ",")
           sha == fields[1][1]
           author_email == fields[2][1]
           committer_email == fields[3][1]
           c == CHOOSE x \in CommitPool : x.sha = sha
           cached_author == REDIS_get(REDIS, Key(author_email))
           cached_committer == REDIS_get(REDIS, Key(committer_email))
           snap(q) == << [ line |-> Head(log), cache |-> REDIS,
                           tally |-> contributors, queried |-> q ] >>
           more == IF Tail(log) # <<>> THEN "log_line" ELSE "returned"
           turn == log_line_body(REDIS, contributors, author_email,
                                 committer_email, CommitInfo(c))
       IN
       \E lookup \in IF turn.queried THEN HttpOutcomes \cup {"KeyError"}
                     ELSE {"none"} :
          IF lookup \notin {"ok", "none"}
          THEN \* github.get or .json() or ["author"] raises
               /\ gc' = [gc EXCEPT !.pc = "raised", !.last = snap(TRUE),
                                   !.queries = @ + 1]
               /\ UNCHANGED <<REDIS, contributors, log>>
          ELSE /\ REDIS' = turn.REDIS
               /\ contributors' = turn.contributors
               /\ log' = Tail(log)
               /\ gc' = [gc EXCEPT !.pc = more, !.last = snap(turn.queried),
                                   !.queries = IF turn.queried THEN @ + 1 ELSE @]
    /\ UNCHANGED <<mainVars, tagVars, mergeVars, listVars, raceVars,
                   patchVars, account>>

ContribNext == get_contributors \/ log_line

SpecContrib == ContribInit /\ [][ContribNext]_vars

\* the last turn of the loop, if there was one
LastTurn == {gc.last[i] : i \in DOMAIN gc.last}

\* the emails of the log line of a turn
TurnEmails(turn) == <<turn.line[3], turn.line[5]>>

\* C4: a commit whose author email and committer email are both in the
\* cache causes no commit lookup and no write to the cache; a lookup is
\* made only for a commit with an email the cache does not hold.
C4_CacheHitMakesNoLookup ==
    \A turn \in LastTurn :
        LET hit == \A i \in 1..2 :
                      Key(TurnEmails(turn)[i]) \in DOMAIN turn.cache
        IN  /\ hit => ~turn.queried /\ REDIS = turn.cache
            /\ turn.queried => ~hit

\* a second commit was served from the cache that the lookup of the first
\* commit filled
C4_Witness ==
    /\ gc # <<>> /\ gc.pc = "returned" /\ Len(gc.seen) = 2
    /\ gc.queries = 1
    /\ \E turn \in LastTurn : ~turn.queried /\ DOMAIN turn.cache # {}

\* the keys of the tally that a turn of the loop inserted or raised
Changed(turn) ==
    { k \in DOMAIN contributors :
         k \notin DOMAIN turn.tally \/ contributors[k] # turn.tally[k] }

\* C5: a commit whose committer email is noreply@github.com changes the
\* tally by the author's credit only: the committer's handle gets no weight
\* and is not inserted, with handles from the cache or from the lookup.
C5_NoreplyCommitterGetsNoCredit ==
    \A turn \in LastTurn :
        TurnEmails(turn)[2] = NOREPLY =>
            /\ DOMAIN turn.tally \subseteq DOMAIN contributors
            /\ Cardinality(Changed(turn)) <= 1
            /\ \A k \in Changed(turn) :
                  /\ k.v = account[TurnEmails(turn)[1]]
                  /\ contributors[k] =
                        (IF k \in DOMAIN turn.tally THEN turn.tally[k] ELSE 0) + 1
            /\ Str(account[NOREPLY]) \notin Changed(turn)

\* a commit made on the platform was looked up, its author was credited
\* and the platform's account is not in the tally
C5_Witness ==
    /\ gc # <<>>
    /\ \E turn \in LastTurn :
          /\ TurnEmails(turn)[2] = NOREPLY /\ turn.queried
          /\ Changed(turn) # {}
    /\ Str("web-flow") \notin DOMAIN contributors

\* the commits of the range, among those git log printed, that satisfy P
CountSeen(P(_)) == Cardinality({i \in 1..Len(gc.seen) : P(gc.seen[i])})

\* C6: the tally returned gives each handle the number of commits it is
\* the author of plus the number of commits it is the committer of, not
\* excluded and not also the author; every handle in the tally has weight
\* at least 1.
C6_TallyWeights ==
    gc # <<>> =>
      /\ \A k \in DOMAIN contributors : contributors[k] >= 1
      /\ gc.pc = "returned" =>
           /\ DOMAIN contributors \subseteq {Str(h) : h \in Handles}
           /\ \A h \in Handles :
                LET authored(c) == account[c.author_email] = h
                    committed(c) == /\ c.committer_email # NOREPLY
                                    /\ account[c.committer_email] = h
                                    /\ account[c.author_email] # h
                    weight == IF Str(h) \in DOMAIN contributors
                              THEN contributors[Str(h)] ELSE 0
                IN  weight = CountSeen(authored) + CountSeen(committed)

\* a tally was returned in which a handle has the weight of two commits,
\* one as author and one as committer
C6_Witness ==
    /\ gc # <<>> /\ gc.pc = "returned"
    /\ \E h \in Handles :
          /\ Str(h) \in DOMAIN contributors /\ contributors[Str(h)] = 2
          /\ \E i, j \in 1..Len(gc.seen) :
                /\ account[gc.seen[i].author_email] = h
                /\ account[gc.seen[j].committer_email] = h
                /\ account[gc.seen[j].author_email] # h

----------------------------------------------------------------------------
(* Two invocations of get_contributors at once on one identity cache: the  *)
(* calls of REDIS.get, github.get and REDIS.set of lines 291-301 are the   *)
(* steps that can interleave; what is between them is local.               *)

\* the most commits in the range of an invocation
MaxRaceCommits == 1

Invocations == {1, 2}

\* the ranges of the invocations: commits that share their emails, a
\* commit made on the platform among them
RaceRanges ==
    { r \in Ranges :
         /\ Len(r) <= MaxRaceCommits
         /\ \A i \in DOMAIN r : r[i].sha # "c6" }

\* get_contributors run from the first log line to the last with no other
\* invocation at work and every lookup answered: the cache and the tally
\* when it returns, and the lookups made
RECURSIVE get_contributors_alone(_, _, _, _)
get_contributors_alone(cache, tally, queries, range) ==
    IF range = <<>>
    THEN [REDIS |-> cache, contributors |-> tally, queries |-> queries]
    ELSE LET c == Head(range)
             turn == log_line_body(cache, tally, c.author_email,
                                   c.committer_email, CommitInfo(c))
         IN  get_contributors_alone(turn.REDIS, turn.contributors,
                                    IF turn.queried THEN queries + 1
                                    ELSE queries,
                                    Tail(range))

Alone(cache, range) == get_contributors_alone(cache, <<>>, 0, range)

\* an invocation at its first log line
Invoked(range) ==
    [ pc |-> "get_author",
      range |-> range,          \* the commits git log printed
      log |-> range,            \* the commits the loop has yet to finish
      author |-> None, committer |-> None,
      github_commit_info |-> [author |-> None, committer |-> None],
      contributors |-> <<>>,
      queries |-> 0 ]

RaceInit ==
    /\ MainInit /\ TagIdle /\ MergeIdle /\ ListIdle /\ PatchIdle
    /\ account \in Accounts
    /\ REDIS \in {c \in Caches : ConsistentCache(c, account)}
    /\ started = REDIS
    /\ log = <<>> /\ contributors = <<>> /\ gc = <<>>
    /\ invocation \in [Invocations -> {Invoked(r) : r \in RaceRanges \ {<<>>}}]

\* what a step of an invocation leaves alone, the cache apart
RaceFrame ==
    UNCHANGED <<mainVars, tagVars, mergeVars, listVars, patchVars, account,
                log, contributors, gc, started>>

\* lines 306-315 and the end of the turn: the commit is credited and the
\* loop takes the next log line, or get_contributors returns
Credited(i) ==
    [i EXCEPT !.contributors =
                  Tallied(@, Head(i.log).committer_email, i.author, i.committer),
              !.log = Tail(@),
              !.pc = IF Tail(i.log) = <<>> THEN "returned" ELSE "get_author",
              !.author = None, !.committer = None,
              !.github_commit_info = [author |-> None, committer |-> None]]

\* line 291: author = REDIS.get(...)
get_author(p) ==
    LET i == invocation[p] IN
    /\ i.pc = "get_author"
    /\ invocation' =
         [invocation EXCEPT ![p] =
            [i EXCEPT !.author = REDIS_get(REDIS, Key(Head(i.log).author_email)),
                      !.pc = "get_committer"]]
    /\ UNCHANGED REDIS /\ RaceFrame

\* lines 292-293 and, with both handles cached, lines 303-315
get_committer(p) ==
    LET i == invocation[p]
        committer == REDIS_get(REDIS, Key(Head(i.log).committer_email))
    IN
    /\ i.pc = "get_committer"
    /\ invocation' =
         [invocation EXCEPT ![p] =
            IF NeedsLookup(i.author, committer)
            THEN [i EXCEPT !.committer = committer, !.pc = "lookup"]
            ELSE Credited([i EXCEPT !.author = Decoded(i.author),
                                    !.committer = Decoded(committer)])]
    /\ UNCHANGED REDIS /\ RaceFrame

\* lines 294-295: the commit looked up
lookup(p) ==
    LET i == invocation[p] IN
    /\ i.pc = "lookup"
    /\ invocation' =
         [invocation EXCEPT ![p] =
            [i EXCEPT !.github_commit_info = CommitInfo(Head(i.log)),
                      !.queries = @ + 1,
                      !.pc = "set_author"]]
    /\ UNCHANGED REDIS /\ RaceFrame

\* lines 296-298
set_author(p) ==
    LET i == invocation[p]
        found == i.github_commit_info.author
        author == Resolved(i.author, found)
    IN
    /\ i.pc = "set_author"
    /\ invocation' =
         [invocation EXCEPT ![p] =
            [i EXCEPT !.author = author, !.pc = "set_committer"]]
    /\ REDIS' = IF Truthy(found)
                THEN REDIS_set(REDIS, Key(Head(i.log).author_email), author.v)
                ELSE REDIS
    /\ RaceFrame

\* lines 299-301, then lines 306-315
set_committer(p) ==
    LET i == invocation[p]
        found == i.github_commit_info.committer
        committer == Resolved(i.committer, found)
    IN
    /\ i.pc = "set_committer"
    /\ invocation' =
         [invocation EXCEPT ![p] = Credited([i EXCEPT !.committer = committer])]
    /\ REDIS' = IF Truthy(found)
                THEN REDIS_set(REDIS, Key(Head(i.log).committer_email),
                               committer.v)
                ELSE REDIS
    /\ RaceFrame

RaceNext ==
    \E p \in Invocations :
       \/ get_author(p)
       \/ get_committer(p)
       \/ lookup(p)
       \/ set_author(p)
       \/ set_committer(p)

SpecRace == RaceInit /\ [][RaceNext]_vars

\* C12: with two invocations of get_contributors at work on one cache,
\* whatever the interleaving of their reads of the cache, their lookups and
\* their writes to the cache, each returns the tally it returns when it
\* runs alone from the cache they started with, having made no lookup it
\* does not make alone; and when both have returned the cache holds, for
\* every email, the one handle it holds when the two run one after the
\* other.
C12_RaceChangesNoResult ==
    /\ \A p \in Invocations :
          LET i == invocation[p]
              alone == Alone(started, i.range)
          IN  i.pc = "returned" =>
                 /\ i.contributors = alone.contributors
                 /\ i.queries <= alone.queries
    /\ (\A p \in Invocations : invocation[p].pc = "returned") =>
          /\ REDIS = Alone(Alone(started, invocation[1].range).REDIS,
                           invocation[2].range).REDIS
          /\ REDIS = Alone(Alone(started, invocation[2].range).REDIS,
                           invocation[1].range).REDIS
          /\ \A e \in Emails :
                Key(e) \in DOMAIN REDIS => REDIS[Key(e)] = account[e]

\* both invocations have returned after racing on the emails of one
\* commit: each looked the commit up, where one lookup serves both when
\* they run one after the other
C12_Witness ==
    /\ \A p \in Invocations :
          invocation[p].pc = "returned" /\ invocation[p].queries >= 1
    /\ invocation[1].range = invocation[2].range
    /\ Alone(Alone(started, invocation[1].range).REDIS,
             invocation[2].range).queries = 0
    /\ \E h \in Handles : Str(h) \in DOMAIN invocation[1].contributors

\* C13: the tally get_contributors returns for a range is the tally it
\* returns for that range when it starts with an empty cache, whatever
\* handles the cache holds at the start, also for commits for which the
\* lookup gives no author or no committer.
C13_TallyIndependentOfCache ==
    (gc # <<>> /\ gc.pc = "returned") =>
        contributors = Alone(<<>>, gc.seen).contributors

\* get_contributors returned a tally for a commit whose author the cache
\* held and whose committer the platform does not know: the commit was
\* looked up and the lookup gave no committer
C13_Witness ==
    /\ gc # <<>> /\ gc.pc = "returned" /\ contributors # <<>>
    /\ \E turn \in LastTurn :
          /\ Key(TurnEmails(turn)[1]) \in DOMAIN turn.cache
          /\ account[TurnEmails(turn)[2]] = ""
          /\ turn.queried

----------------------------------------------------------------------------
(* The master tally: add_contributors(master_list, additions) called once  *)
(* for each library, lines 385-387, by two runs that take the same         *)
(* libraries in their own orders.                                          *)

\* the most libraries whose tallies are merged
MaxLibs == 2

\* the tallies get_contributors can return for a library or for the bundle
TallyPool ==
    UNION { [ks -> {1, 2}] : ks \in SUBSET {Str("alice"), Str("bob")} }

\* the additions but for contributor c
Without(additions, c) == [k \in DOMAIN additions \ {c} |-> additions[k]]

\* a slip: the weight of the library put in place of the sum
RECURSIVE add_contributors_overwriting(_, _)
add_contributors_overwriting(master, additions) ==
    IF DOMAIN additions = {} THEN master
    ELSE LET contributor == CHOOSE k \in DOMAIN additions : TRUE
         IN  add_contributors_overwriting(
                 DictSet(master, contributor, additions[contributor]),
                 Without(additions, contributor))

\* add_contributors(master_list, additions): the master tally afterwards
RECURSIVE add_contributors(_, _)
add_contributors(master, additions) ==
    IF DOMAIN additions = {} THEN master
    ELSE LET contributor == CHOOSE k \in DOMAIN additions : TRUE
             m0 == IF contributor \notin DOMAIN master
                   THEN DictSet(master, contributor, 0) ELSE master
             m1 == DictSet(m0, contributor, m0[contributor] + additions[contributor])
         IN  add_contributors(m1, Without(additions, contributor))

Runs == {1, 2}

MergeInit ==
    /\ MainInit /\ TagIdle /\ ContribIdle /\ ListIdle /\ RaceIdle /\ PatchIdle
    /\ \E start \in TallyPool :
          /\ master_list = [r \in Runs |-> start]
          /\ merge \in [ libs : SeqsUpTo(TallyPool, MaxLibs),
                         start : {start},
                         order : {[r \in Runs |-> <<>>]} ]

\* the libraries a run has not merged yet; run 1 takes them as listed
Pending(r) ==
    LET done == {merge.order[r][i] : i \in DOMAIN merge.order[r]}
        left == DOMAIN merge.libs \ done
    IN  IF r = 1
        THEN {i \in left : \A j \in left : i <= j}
        ELSE left

\* a run merges the tally of one more library
merge_library ==
    /\ merge # <<>>
    /\ \E r \in Runs : \E i \in Pending(r) :
         /\ master_list' = [master_list EXCEPT
                               ![r] = add_contributors(@, merge.libs[i])]
         /\ merge' = [merge EXCEPT !.order[r] = Append(@, i)]
    /\ UNCHANGED <<mainVars, tagVars, contribVars, listVars, raceVars,
                   patchVars>>

MergeNext == merge_library

SpecMerge == MergeInit /\ [][MergeNext]_vars

\* C7: merging the same per-library tallies into the master tally gives the
\* same master tally, handles and weights, in every order of the libraries.
C7_MergeOrderIndependent ==
    (merge # <<>> /\ \A r \in Runs : Pending(r) = {}) =>
        master_list[1] = master_list[2]

\* two runs merged two different tallies that share a handle with the
\* master tally, in opposite orders
C7_Witness ==
    /\ merge # <<>>
    /\ merge.order[1] = <<1, 2>> /\ merge.order[2] = <<2, 1>>
    /\ merge.libs[1] # merge.libs[2]
    /\ \E k \in DOMAIN merge.start :
          k \in DOMAIN merge.libs[1] /\ k \in DOMAIN merge.libs[2]

----------------------------------------------------------------------------
(* The library list: check_lib_links_md(bundle_path) on the primary        *)
(* bundle.                                                                 *)

\* the most runs of check_lib_links_md that are followed
MaxRuns == 2

GitHub == <<"https:", "/", "/", "github", ".", "com", "/", "adafruit", "/">>

\* the submodules of the bundle, as common_funcs.get_bundle_submodules()
\* gives them: (name, {"path": ..., "url": ...})
LibraryPool ==
    { [ path |-> <<"libraries", "/", "drivers", "/", "bme280">>,
        url |-> GitHub \o <<"Adafruit", "_", "CircuitPython", "_", "BME280",
                            ".", "git">> ],
      [ path |-> <<"libraries", "/", "drivers", "/", "ads1x15">>,
        url |-> GitHub \o <<"Adafruit", "_", "CircuitPython", "_", "ADS1x15">> ],
      [ path |-> <<"libraries", "/", "helpers", "/", "bus", "_", "device">>,
        url |-> GitHub \o <<"Adafruit", "_", "CircuitPython", "_", "Bus", "_",
                            "Device", ".", "git">> ],
      [ path |-> <<"libraries", "/", "register">>,
        url |-> GitHub \o <<"Adafruit", "_", "CircuitPython", "_", "Register",
                            ".", "git">> ] }

\* the tokens of the texts that are sorted, in the order of their first
\* characters
Alphabet ==
    << "\n", " ", " ([PyPi](https://pypi.org/project/", " \\([Docs](", "#",
       "(", ")", "))", "* [", "-", ".", "/", "ADS1x15", "Adafruit", "BME280",
       "Bus", "CircuitPython", "Device", "Register", "](", "_", "adafruit",
       "ads1x15", "bme280", "bus", "circuitpython", "com", "device", "docs",
       "drivers", "git", "github", "helpers", "https:", "libraries",
       "register" >>

RankOf ==
    [token \in {Alphabet[i] : i \in DOMAIN Alphabet} |->
        CHOOSE i \in DOMAIN Alphabet : Alphabet[i] = token]

Rank(token) == RankOf[token]

\* a < b for two texts, as Python compares str
RECURSIVE Before(_, _)
Before(a, b) ==
    IF b = <<>> THEN FALSE
    ELSE IF a = <<>> THEN TRUE
    ELSE IF a[1] = b[1] THEN Before(Tail(a), Tail(b))
    ELSE Rank(a[1]) < Rank(b[1])

\* sorted(items, key=key) on items paired with their keys: insertion after
\* the entries that are not greater keeps the order of equal keys
RECURSIVE InsertKeyed(_, _)
InsertKeyed(sorted, entry) ==
    IF sorted = <<>> THEN <<entry>>
    ELSE IF Before(entry.key, Head(sorted).key)
    THEN <<entry>> \o sorted
    ELSE <<Head(sorted)>> \o InsertKeyed(Tail(sorted), entry)

RECURSIVE SortKeyed(_)
SortKeyed(entries) ==
    IF entries = <<>> THEN <<>>
    ELSE InsertKeyed(SortKeyed(SubSeq(entries, 1, Len(entries) - 1)),
                     Last(entries))

\* sorted(items, key=...), keys[i] the key of items[i]
Sorted(items, keys) ==
    LET keyed == [i \in DOMAIN items |-> [key |-> keys[i], item |-> items[i]]]
        sorted == SortKeyed(keyed)
    IN  [i \in DOMAIN sorted |-> sorted[i].item]

\* s.rfind(token), counting from 1; 0 when the token is not in s
RFind(s, token) ==
    LET at == {i \in DOMAIN s : s[i] = token} IN
    IF at = {} THEN 0 ELSE CHOOSE i \in at : \A j \in at : j <= i

\* s.replace(old, new) for one-token texts
Replace(s, old, new) == [i \in DOMAIN s |-> IF s[i] = old THEN new ELSE s[i]]

\* s.lower()
LowerToken(token) ==
    CASE token = "Adafruit" -> "adafruit"
      [] token = "CircuitPython" -> "circuitpython"
      [] token = "BME280" -> "bme280"
      [] token = "ADS1x15" -> "ads1x15"
      [] token = "Bus" -> "bus"
      [] token = "Device" -> "device"
      [] token = "Register" -> "register"
      [] OTHER -> token

Lower(s) == [i \in DOMAIN s |-> LowerToken(s[i])]

\* lines 104-107: the name of the repository in its URL
url_name(url) ==
    SubSeq(url, RFind(url, "/") + 1,
           IF RFind(url, ".") > RFind(url, "/")
           THEN RFind(url, ".") - 1 ELSE Len(url))

\* common_funcs.get_docs_link(bundle_path, submodule), when it finds one
docs_link(submodule) ==
    <<"https:", "/", "/", "docs", ".", "com", "/">>
        \o Lower(<<Last(submodule.path)>>)

\* lines 103-116: the line of a library, given what the lookups say
list_line(submodule, on_pypi, has_docs) ==
    LET name == url_name(submodule.url)
        pypi_name == IF on_pypi
                     THEN <<" ([PyPi](https://pypi.org/project/">>
                              \o Lower(Replace(name, "_", "-")) \o <<"))">>
                     ELSE <<>>
        docs_name == IF has_docs
                     THEN <<" \\([Docs](">> \o docs_link(submodule) \o <<"))">>
                     ELSE <<>>
        title == Replace(name, "_", " ")
    IN  <<"* [">> \o title \o <<"](">> \o submodule.url \o <<")">>
            \o pypi_name \o docs_name

\* the concatenation of the texts of a sequence, each followed by end
RECURSIVE Joined(_, _)
Joined(texts, end) ==
    IF texts = <<>> THEN <<>>
    ELSE Head(texts) \o end \o Joined(Tail(texts), end)

\* text.splitlines()
SplitLines(text) ==
    IF text = <<>> THEN <<>>
    ELSE LET pieces == SplitOn(text, "\n")
         IN  IF Last(text) = "\n"
             THEN SubSeq(pieces, 1, Len(pieces) - 1) ELSE pieces

\* lines 124-133 and 138: "\n".join(lib_list_header)
Header(lib_count) ==
    << "# Adafruit CircuitPython Libraries", "\n",
       "![Blinka Reading](22_1023blinka.png)", "\n",
       "Here is a listing of current Adafruit CircuitPython Libraries.", "\n",
       "There are ", ToString(lib_count), " libraries available.", "\n", "\n",
       "## Drivers:", "\n" >>

\* a slip: the document opened to append
md_file_appended(old, text) == old \o text

\* open(..., "w") and the writes: the text of the document afterwards
md_file_written(old, text) == text

\* check_lib_links_md(bundle_path) on the primary bundle, the submodules
\* given in the order enumerated: the text written and the list returned
check_lib_links_md(enumerated, lookups, old) ==
    LET submodules_list ==
            Sorted(enumerated, [i \in DOMAIN enumerated |-> enumerated[i].path])
        read_lines == SplitLines(old)
        read == {read_lines[i] : i \in DOMAIN read_lines}
        \* the loop of lines 102-122: each submodule with its line
        looped == [i \in DOMAIN submodules_list |->
                      LET m == submodules_list[i]
                      IN  [ submodule |-> m,
                            list_line |-> list_line(m, lookups[m].pypi,
                                                    lookups[m].docs) ]]
        IsNew(e) == e.list_line \notin read
        IsDriver(e) == Contains(e.submodule.path, <<"drivers">>)
        IsHelper(e) == ~IsDriver(e) /\ Contains(e.submodule.path, <<"helpers">>)
        LinesOf(es) == [i \in DOMAIN es |-> es[i].list_line]
        write_drivers == LinesOf(SelectSeq(looped, IsDriver))
        write_helpers == LinesOf(SelectSeq(looped, IsHelper))
        new == SelectSeq(looped, IsNew)
        text == Header(Len(submodules_list))
                   \o Joined(Sorted(write_drivers, write_drivers), <<"\n">>)
                   \o <<"\n", "## Helpers:", "\n">>
                   \o Joined(Sorted(write_helpers, write_helpers), <<"\n">>)
    IN  [ written |-> md_file_written(old, text),
          updates_made |-> [i \in DOMAIN new |-> url_name(new[i].submodule.url)] ]

\* the orders in which a set can be enumerated
RECURSIVE Enumerations(_)
Enumerations(S) ==
    IF S = {} THEN {<<>>}
    ELSE UNION { {<<x>> \o e : e \in Enumerations(S \ {x})} : x \in S }

\* a document an earlier state of the bundle left
StaleDocument ==
    Header(1) \o list_line(CHOOSE m \in LibraryPool : Last(m.path) = "bme280",
                           FALSE, FALSE)
        \o <<"\n", "\n", "## Helpers:", "\n">>

ListInit ==
    /\ MainInit /\ TagIdle /\ ContribIdle /\ MergeIdle /\ RaceIdle /\ PatchIdle
    /\ document \in {<<>>, StaleDocument}
    /\ \E libs \in SUBSET LibraryPool :
          listing \in [ libs : {libs},
                        lookups : [libs -> [pypi : BOOLEAN, docs : BOOLEAN]],
                        runs : {0},
                        previous : {<<>>},      \* the text before the last run
                        updates_made : {<<>>} ] \* what the last run returned

\* one run of check_lib_links_md, the libraries and the lookups unchanged
list_run ==
    /\ listing # <<>> /\ listing.runs < MaxRuns
    /\ \E enumerated \in Enumerations(listing.libs) :
         LET run == check_lib_links_md(enumerated, listing.lookups, document)
         IN  /\ document' = run.written
             /\ listing' = [listing EXCEPT !.runs = @ + 1,
                                           !.previous = document,
                                           !.updates_made = run.updates_made]
    /\ UNCHANGED <<mainVars, tagVars, contribVars, mergeVars, raceVars,
                   patchVars>>

ListNext == list_run

SpecList == ListInit /\ [][ListNext]_vars

\* C9: two runs of check_lib_links_md in a row, the libraries and the
\* lookups unchanged, write the same text, whatever the order in which the
\* libraries are enumerated.
C9_ListingIdempotent ==
    (listing # <<>> /\ listing.runs >= 2) => document = listing.previous

\* a second run over a driver, a helper and a library outside both wrote
\* the document again
C9_Witness ==
    /\ listing # <<>> /\ listing.runs = 2
    /\ Cardinality(listing.libs) >= 3
    /\ \E m \in listing.libs : listing.lookups[m].pypi /\ listing.lookups[m].docs
    /\ Contains(document, <<"* [", "Adafruit", " ", "CircuitPython", " ", "Bus",
                            " ", "Device", "](">>)

\* C15: a call of check_lib_links_md that follows another, the libraries
\* and the lookups unchanged, reports no new library, whatever the
\* libraries: every library's line is in the document the call before
\* wrote.
C15_SecondRunReportsNothing ==
    (listing # <<>> /\ listing.runs >= 2) => listing.updates_made = <<>>

----------------------------------------------------------------------------
(* circuitpython_library_patches.py: check_patches(repo, patches, flags,   *)
(* use_apply, dry_run) called for each repository by the main loop.        *)

\* the most patches a run is given
MaxPatches == 2

\* repos = get_repo_list(): the repositories of a run
Repositories ==
    << [name |-> "Adafruit_CircuitPython_BME280", url |-> "url_bme280"],
       [name |-> "Adafruit_CircuitPython_Register", url |-> "url_register"] >>

PatchPool == {"0001-fix.patch", "0002-ci.patch", "0003-docs.patch"}

\* run_patches: the patches of get_patches, or the one of --patch; with
\* --use-apply the run is refused unless --patch names the one patch
PatchLists ==
    { ps \in SeqsUpTo(PatchPool, MaxPatches) :
         \A i, j \in DOMAIN ps : i # j => ps[i] # ps[j] }

\* what git clone does: it clones, or fails with status 128 because the
\* directory already exists or for another reason, or fails otherwise
CloneOutcomes ==
    { [exit |-> "ok", stderr |-> <<>>],
      [exit |-> "ErrorReturnCode_128",
       stderr |-> <<"fatal", ":", " ", "destination path", " ",
                    "already exists", "\n">>],
      [exit |-> "ErrorReturnCode_128",
       stderr |-> <<"fatal", ":", " ", "repository not found", "\n">>],
      [exit |-> "ErrorReturnCode_1", stderr |-> <<"error", ":", " ", "x">>] }

\* what git apply --check does, with what it writes to stderr
CheckOutcomes ==
    { [exit |-> "ok", stderr |-> <<>>],
      [exit |-> "ErrorReturnCode_1",
       stderr |-> <<"warning", ":", " ", "squelched", "\n">>],
      [exit |-> "ErrorReturnCode_1",
       stderr |-> <<"error", ":", " ", "setup.py", ":", " ",
                    "patch does not apply", "\n">>],
      [exit |-> "ErrorReturnCode_1",
       stderr |-> <<"error", ":", " ", "corrupt patch at line 3", "\n">>],
      [exit |-> "ErrorReturnCode_128",
       stderr |-> <<"fatal", ":", " ", "unrecognized input", "\n">>] }

\* the number of characters of a token of a stderr text
Chars(token) ==
    CASE token \in {":", " ", "\n"} -> 1
      [] token \in {"fatal", "error"} -> 5
      [] OTHER -> 8

\* s[n:] for a text s
RECURSIVE DropChars(_, _)
DropChars(s, n) ==
    IF n <= 0 \/ s = <<>> THEN s
    ELSE DropChars(Tail(s), n - Chars(Head(s)))

\* lines 236-238 and 251-253: the text after the last "error:" of stderr,
\* newlines made spaces; rfind gives -1 when there is none, and the text
\* then starts at its seventh character
error_text(stderr) ==
    LET error_str == Replace(stderr, "\n", " ")
        at == { i \in 1..(Len(error_str) - 1) :
                   error_str[i] = "error" /\ error_str[i + 1] = ":" }
    IN  IF at = {} THEN DropChars(error_str, 6)
        ELSE LET last == CHOOSE i \in at : \A j \in at : j <= i
             IN  DropChars(SubSeq(error_str, last, Len(error_str)), 7)

\* dict(repo_name=..., patch_name=..., error=...)
error_record(repo_name, patch, error) ==
    [repo_name |-> repo_name, patch_name |-> patch, error |-> error]

\* what a git command of apply_patch writes to stderr when it fails
ApplyStderr == <<"error", ":", " ", "failed to push", "\n">>

\* a slip: a failure of apply_patch that leaves no record
apply_patch_unrecorded(errors, repo, patch, use_apply, am, apply, subject, commit, push) ==
    [ result |-> IF use_apply /\ apply = "ok" /\ ~subject
                 THEN "UnboundLocalError"
                 ELSE IF (IF use_apply THEN apply = "ok" /\ commit = "ok"
                          ELSE am = "ok") /\ push = "ok"
                 THEN "True" ELSE "False",
      apply_errors |-> errors ]

\* apply_patch(repo_directory, patch_filepath, repo, patch, flags,
\* use_apply), given what git am, git apply, git commit and git push do and
\* whether the patch file has a "[PATCH]" line: what it returns (or the
\* error that leaves it: message is unbound without a "[PATCH]" line) and
\* apply_errors afterwards
apply_patch(errors, repo, patch, use_apply, am, apply, subject, commit, push) ==
    LET failed == [ result |-> "False",
                    apply_errors |->
                        Append(errors, error_record(repo, patch, ApplyStderr)) ]
        pushed == IF push # "ok" THEN failed
                  ELSE [result |-> "True", apply_errors |-> errors]
    IN  IF ~use_apply
        THEN IF am # "ok" THEN failed ELSE pushed
        ELSE IF apply # "ok" THEN failed
        ELSE IF ~subject
        THEN [result |-> "UnboundLocalError", apply_errors |-> errors]
        ELSE IF commit # "ok" THEN failed
        ELSE pushed

\* if b"error" not in err.stderr or b"patch does not apply" in err.stderr
Skipping(stderr) ==
    ~Contains(stderr, <<"error">>) \/ Contains(stderr, <<"patch does not apply">>)

PatchInit ==
    /\ MainInit /\ TagIdle /\ ContribIdle /\ MergeIdle /\ ListIdle /\ RaceIdle
    /\ check_errors = <<>>
    /\ apply_errors = <<>>
    /\ stats = <<0, 0, 0>>
    /\ patching \in
         { [ pc |-> "check_patches",
             repository |-> 1,          \* the place in repos of the repository
             run_patches |-> ps,
             use_apply |-> use_apply,
             dry_run |-> dry_run,
             patches |-> <<>>,          \* the patches the loop has yet to take
             applied |-> 0, skipped |-> 0, failed |-> 0,
             results |-> <<>>,          \* what check_patches returned last
             check_before |-> 0,        \* len(check_errors) when it was called
             apply_before |-> 0 ] :     \* len(apply_errors) when it was called
             ps \in PatchLists, use_apply \in BOOLEAN, dry_run \in BOOLEAN }
    /\ patching.use_apply => Len(patching.run_patches) = 1

PatchFrame ==
    UNCHANGED <<mainVars, tagVars, contribVars, mergeVars, listVars, raceVars>>

\* lines 197-201: check_patches is called for the next repository
check_patches ==
    /\ patching # <<>> /\ patching.pc = "check_patches"
    /\ patching' =
         [patching EXCEPT !.patches = patching.run_patches,
                          !.applied = 0, !.skipped = 0, !.failed = 0,
                          !.check_before = Len(check_errors),
                          !.apply_before = Len(apply_errors),
                          !.pc = IF patching.run_patches = <<>>
                                 THEN "return" ELSE "patch"]
    /\ UNCHANGED <<check_errors, apply_errors, stats>>
    /\ PatchFrame

\* lines 203-272: one turn of the loop over the patches
patch ==
    /\ patching # <<>> /\ patching.pc = "patch"
    /\ UNCHANGED stats
    /\ PatchFrame
    /\ LET repo == Repositories[patching.repository]
           name == Head(patching.patches)
           more == IF Tail(patching.patches) # <<>> THEN "patch" ELSE "return"
           Raised == /\ patching' = [patching EXCEPT !.pc = "raised"]
                     /\ UNCHANGED <<check_errors, apply_errors>>
           Applied == [patching EXCEPT !.applied = @ + 1,
                                       !.patches = Tail(@), !.pc = more]
           Skipped == [patching EXCEPT !.skipped = @ + 1,
                                       !.patches = Tail(@), !.pc = more]
           Failed == [patching EXCEPT !.failed = @ + 1,
                                      !.patches = Tail(@), !.pc = more]
       IN
       \E clone \in CloneOutcomes, check \in CheckOutcomes :
          IF clone.exit = "ErrorReturnCode_128"
             /\ ~Contains(clone.stderr, <<"already exists">>)
          THEN Raised        \* raise RuntimeError(err.stderr) from None
          ELSE IF clone.exit \notin {"ok", "ErrorReturnCode_128"}
          THEN Raised        \* no handler for the other statuses
          ELSE IF check.exit = "ErrorReturnCode_1" /\ Skipping(check.stderr)
          THEN /\ patching' = Skipped
               /\ UNCHANGED <<check_errors, apply_errors>>
          ELSE IF check.exit # "ok"
          THEN /\ patching' = Failed
               /\ check_errors' =
                     Append(check_errors,
                            error_record(repo.name, name,
                                         error_text(check.stderr)))
               /\ UNCHANGED apply_errors
          ELSE IF patching.dry_run
          THEN /\ patching' = Applied
               /\ UNCHANGED <<check_errors, apply_errors>>
          ELSE \E am \in {"ok", "fail"}, apply \in {"ok", "fail"},
                  subject \in BOOLEAN, commit \in {"ok", "fail"},
                  push \in {"ok", "fail"} :
                 LET result == apply_patch(apply_errors, repo.name, name,
                                           patching.use_apply, am, apply,
                                           subject, commit, push)
                 IN  /\ UNCHANGED check_errors
                     /\ apply_errors' = result.apply_errors
                     /\ patching' =
                          IF result.result = "True" THEN Applied
                          ELSE IF result.result = "False" THEN Failed
                          ELSE [patching EXCEPT !.pc = "raised"]

\* line 273, and lines 331-340 of the main loop: the counters are returned
\* and added to stats, and the loop goes on to the next repository
check_patches_return ==
    /\ patching # <<>> /\ patching.pc = "return"
    /\ LET results == <<patching.applied, patching.skipped, patching.failed>>
       IN  /\ stats' = [k \in 1..3 |-> stats[k] + results[k]]
           /\ patching' =
                [patching EXCEPT
                    !.results = results,
                    !.repository =
                        IF @ < Len(Repositories) THEN @ + 1 ELSE @,
                    !.pc = IF patching.repository < Len(Repositories)
                           THEN "check_patches" ELSE "done"]
    /\ UNCHANGED <<check_errors, apply_errors>>
    /\ PatchFrame

PatchNext == check_patches \/ patch \/ check_patches_return

SpecPatch == PatchInit /\ [][PatchNext]_vars

\* C16: whenever check_patches has returned, the counters it returned sum
\* to the number of patches it was given, and failed counts the records
\* the call appended to check_errors and apply_errors: each patch raised
\* one counter, and each patch counted as failed left one record.
C16_CountersSumToPatches ==
    (patching # <<>> /\ patching.results # <<>>
        /\ patching.pc \in {"check_patches", "done"}) =>
       /\ patching.results[1] + patching.results[2] + patching.results[3]
             = Len(patching.run_patches)
       /\ patching.results[3]
             = (Len(check_errors) - patching.check_before)
                  + (Len(apply_errors) - patching.apply_before)
       /\ stats[3] = Len(check_errors) + Len(apply_errors)

\* check_patches returned for the last repository, the run not a dry run:
\* a patch was applied, a patch was skipped, a patch failed at the check
\* and a patch failed in apply_patch
C16_Witness ==
    /\ patching # <<>> /\ patching.pc = "done"
    /\ ~patching.dry_run
    /\ stats[1] >= 1 /\ stats[2] >= 1
    /\ check_errors # <<>> /\ apply_errors # <<>>

====
